---- MODULE Spec2Model ----
(***************************************************************************)
(* Model of the network probing engine (nsaf/core/scanner.py) and of the   *)
(* rule-based assessment engine of the Network Security Assessment         *)
(* Framework.  Strings are sequences of one-character strings, so that     *)
(* splitting, integer parsing, lower-casing and substring search are       *)
(* computed as the Python code computes them.                              *)
(***************************************************************************)
EXTENDS Integers, Sequences, FiniteSets, TLC

VARIABLES
    op,                 \* the public operation in progress, "idle" before a call
    arg,                \* the arguments of the call in progress
    ret,                \* how the call ended: [kind, value]
    max_threads,        \* NetworkScanner.max_threads
    nm,                 \* NetworkScanner.nm is set (the nmap capability is present)
    pc,                 \* position of the calling thread inside the operation
    ti,                 \* index of the target (port_scan) or entry (service_detection) in hand
    port_list,          \* _tcp_connect_scan: the parsed port list
    futures,            \* the pool's futures: state and result of every submitted probe
    doneq,              \* indexes of finished futures, in completion order (as_completed)
    results,            \* the local list `results` / `active_hosts` / `enhanced_results`
    scan_results,       \* port_scan: the dictionary `results` as a sequence of <<target, list>>
    sockets,            \* number of probes that opened sockets since the call started
    log,                \* logger calls at error level made by the operation
    vulnerabilities,    \* VulnerabilityScanner.vulnerabilities
    security_issues,    \* VulnerabilityScanner.security_issues
    calls,              \* the assess() invocations on the engine instance
    objects,            \* service_detection: the ScanResult objects of the list it is given
    probes              \* service_detection: how the deeper probe of each entry went

vars == <<op, arg, ret, max_threads, nm, pc, ti, port_list, futures, doneq,
          results, scan_results, sockets, log, vulnerabilities,
          security_issues, calls, objects, probes>>

scanVars == <<pc, ti, port_list, futures, doneq, results, scan_results, sockets, log>>
engineVars == <<vulnerabilities, security_issues, calls>>
detectVars == <<objects, probes>>

----------------------------------------------------------------------------
(* Bounds *)

MaxTokens == 3          \* tokens in a generated well-formed port-spec
MaxRawLen == 4          \* length of an arbitrary port-spec string
MaxFrags == 2           \* banner fragments concatenated into one banner

----------------------------------------------------------------------------
(* Strings *)

Digits == <<"0", "1", "2", "3", "4", "5", "6", "7", "8", "9">>

DigitSet == {Digits[i] : i \in 1..10}

DigitVal(c) == (CHOOSE i \in 1..10 : Digits[i] = c) - 1

\* str.split(sep): the pieces between the separators, at least one piece
RECURSIVE SplitFrom(_, _, _, _)
SplitFrom(s, sep, i, cur) ==
    IF i > Len(s) THEN <<cur>>
    ELSE IF s[i] = sep THEN <<cur>> \o SplitFrom(s, sep, i + 1, <<>>)
    ELSE SplitFrom(s, sep, i + 1, Append(cur, s[i]))

Split(s, sep) == SplitFrom(s, sep, 1, <<>>)

\* `sub in s`
Contains(s, sub) ==
    \E i \in 1..(Len(s) - Len(sub) + 1) : SubSeq(s, i, i + Len(sub) - 1) = sub

\* int(t) succeeds on a non-empty digit string and raises ValueError otherwise
IntOk(t) == Len(t) > 0 /\ \A i \in 1..Len(t) : t[i] \in DigitSet

RECURSIVE IntVal(_)
IntVal(t) ==
    IF Len(t) = 0 THEN 0
    ELSE 10 * IntVal(SubSeq(t, 1, Len(t) - 1)) + DigitVal(t[Len(t)])

\* range(start, end + 1) as a list
PyRange(start, end) ==
    IF end < start THEN <<>> ELSE [i \in 1..(end - start + 1) |-> start + i - 1]

UpperChars == <<"H", "T", "P", "S", "F", "M", "O", "K", "Q", "L", "D", "B", "R", "E", "V">>
LowerChars == <<"h", "t", "p", "s", "f", "m", "o", "k", "q", "l", "d", "b", "r", "e", "v">>

\* str.lower() on one character
LowerChar(c) ==
    IF \E i \in 1..Len(UpperChars) : UpperChars[i] = c
    THEN LowerChars[CHOOSE i \in 1..Len(UpperChars) : UpperChars[i] = c]
    ELSE c

StrLower(s) == [i \in 1..Len(s) |-> LowerChar(s[i])]

----------------------------------------------------------------------------
(* NetworkScanner._parse_ports *)

\* a range that stops before its end: range(start, end)
ParsePart_exclusive(part) ==
    IF Contains(part, <<"-">>)
    THEN LET pieces == Split(part, "-") IN
         IF Len(pieces) = 2 /\ IntOk(pieces[1]) /\ IntOk(pieces[2])
         THEN [ok |-> TRUE, list |-> PyRange(IntVal(pieces[1]), IntVal(pieces[2]) - 1)]
         ELSE [ok |-> FALSE, list |-> <<>>]
    ELSE IF IntOk(part)
         THEN [ok |-> TRUE, list |-> <<IntVal(part)>>]
         ELSE [ok |-> FALSE, list |-> <<>>]

\* one comma-separated part: [ok, list]
ParsePart(part) ==
    IF Contains(part, <<"-">>)
    THEN LET pieces == Split(part, "-") IN
         IF Len(pieces) = 2 /\ IntOk(pieces[1]) /\ IntOk(pieces[2])
         THEN [ok |-> TRUE, list |-> PyRange(IntVal(pieces[1]), IntVal(pieces[2]))]
         ELSE [ok |-> FALSE, list |-> <<>>]
    ELSE IF IntOk(part)
         THEN [ok |-> TRUE, list |-> <<IntVal(part)>>]
         ELSE [ok |-> FALSE, list |-> <<>>]

RECURSIVE ParseParts(_, _, _)
ParseParts(parts, i, acc) ==
    IF i > Len(parts) THEN [ok |-> TRUE, list |-> acc]
    ELSE LET p == ParsePart(parts[i]) IN
         IF p.ok THEN ParseParts(parts, i + 1, acc \o p.list)
         ELSE [ok |-> FALSE, list |-> <<>>]

\* ok = FALSE stands for the ValueError that leaves _parse_ports
_parse_ports(ports) == ParseParts(Split(ports, ","), 1, <<>>)

----------------------------------------------------------------------------
(* NetworkScanner._identify_service *)

common_services ==
    [p \in {21, 22, 23, 25, 53, 80, 110, 143, 443, 993, 995, 3389, 5432, 3306} |->
        CASE p = 21 -> "ftp"
          [] p = 22 -> "ssh"
          [] p = 23 -> "telnet"
          [] p = 25 -> "smtp"
          [] p = 53 -> "dns"
          [] p = 80 -> "http"
          [] p = 110 -> "pop3"
          [] p = 143 -> "imap"
          [] p = 443 -> "https"
          [] p = 993 -> "imaps"
          [] p = 995 -> "pop3s"
          [] p = 3389 -> "rdp"
          [] p = 5432 -> "postgresql"
          [] p = 3306 -> "mysql"]

\* the banner matched without lower-casing it
_identify_service_cased(port, banner) ==
    LET service == IF port \in DOMAIN common_services
                   THEN common_services[port] ELSE "unknown"
    IN  IF Len(banner) > 0
        THEN IF Contains(banner, <<"h", "t", "t", "p">>) THEN "http"
             ELSE IF Contains(banner, <<"s", "s", "h">>) THEN "ssh"
             ELSE IF Contains(banner, <<"f", "t", "p">>) THEN "ftp"
             ELSE IF Contains(banner, <<"s", "m", "t", "p">>) THEN "smtp"
             ELSE service
        ELSE service

_identify_service(port, banner) ==
    LET service == IF port \in DOMAIN common_services
                   THEN common_services[port] ELSE "unknown"
        banner_lower == StrLower(banner)
    IN  IF Len(banner) > 0
        THEN IF Contains(banner_lower, <<"h", "t", "t", "p">>) THEN "http"
             ELSE IF Contains(banner_lower, <<"s", "s", "h">>) THEN "ssh"
             ELSE IF Contains(banner_lower, <<"f", "t", "p">>) THEN "ftp"
             ELSE IF Contains(banner_lower, <<"s", "m", "t", "p">>) THEN "smtp"
             ELSE service
        ELSE service

----------------------------------------------------------------------------
(* Construction: NetworkScanner.__init__ and VulnerabilityScanner.__init__ *)

DefaultMaxThreads == 100

NoRet == [kind |-> "none", value |-> <<>>]

\* the two callers that may hold an assess() invocation on the engine
Callers == {1, 2}

IdleCall == [pc |-> "idle", input |-> <<>>, hi |-> 0, report |-> <<>>]

InitWith(K, nmap) ==
    /\ op = "idle"
    /\ arg = <<>>
    /\ ret = NoRet
    /\ max_threads = K
    /\ nm = nmap
    /\ pc = "idle"
    /\ ti = 0
    /\ port_list = <<>>
    /\ futures = <<>>
    /\ doneq = <<>>
    /\ results = <<>>
    /\ scan_results = <<>>
    /\ sockets = 0
    /\ log = <<>>
    /\ vulnerabilities = <<>>
    /\ security_issues = <<>>
    /\ calls = [t \in Callers |-> IdleCall]
    /\ objects = <<>>
    /\ probes = <<>>

----------------------------------------------------------------------------
(* Port-spec inputs *)

FormatInt(n) ==
    IF n < 10 THEN <<Digits[n + 1]>>
    ELSE IF n < 100 THEN <<Digits[(n \div 10) + 1], Digits[(n % 10) + 1]>>
    ELSE <<Digits[(n \div 100) + 1], Digits[((n \div 10) % 10) + 1], Digits[(n % 10) + 1]>>

SpecTokens ==
    {FormatInt(n) : n \in {22, 80, 443}}
    \cup {FormatInt(a) \o <<"-">> \o FormatInt(b) : a \in {80, 82}, b \in {80, 82}}

RECURSIVE JoinComma(_)
JoinComma(ts) ==
    IF Len(ts) = 0 THEN <<>>
    ELSE IF Len(ts) = 1 THEN ts[1]
    ELSE ts[1] \o <<",">> \o JoinComma(Tail(ts))

SeqsUpTo(S, n) == UNION {[1..k -> S] : k \in 0..n}

\* port-specs made of one to MaxTokens well-formed tokens, as in test_parse_ports
TokenSpecs == {JoinComma(ts) : ts \in SeqsUpTo(SpecTokens, MaxTokens) \ {<<>>}}

\* every string up to MaxRawLen over the characters of a port-spec
RawSpecs == SeqsUpTo({"8", "0", ",", "-"}, MaxRawLen)

PortSpecs == TokenSpecs \cup RawSpecs

----------------------------------------------------------------------------
(* Calls of the pure helpers, as the tests call them on a fresh scanner *)

CallParsePorts ==
    /\ op = "idle"
    /\ \E s \in PortSpecs :
         LET r == _parse_ports(s) IN
         /\ arg' = [ports |-> s]
         /\ ret' = IF r.ok THEN [kind |-> "return", value |-> r.list]
                   ELSE [kind |-> "raise", value |-> <<"ValueError">>]
    /\ op' = "_parse_ports"
    /\ UNCHANGED <<max_threads, nm, scanVars, engineVars, detectVars>>

InitParse == InitWith(DefaultMaxThreads, FALSE)

NextParse == CallParsePorts

SpecParse == InitParse /\ [][NextParse]_vars

BannerFragments ==
    { <<"H", "T", "T", "P">>, <<"h", "t", "t", "p">>, <<"S", "S", "H">>,
      <<"s">>, <<"s", "h">>, <<"F", "T", "P">>, <<"f", "t">>, <<"p">>,
      <<"S", "M", "T", "P">>, <<"s", "m">>, <<"2", "2", "0">>, <<" ">>,
      <<"O", "K">> }

RECURSIVE Concat(_)
Concat(ss) == IF Len(ss) = 0 THEN <<>> ELSE ss[1] \o Concat(Tail(ss))

Banners == {Concat(fs) : fs \in SeqsUpTo(BannerFragments, MaxFrags)}

IdentifyPorts == DOMAIN common_services \cup {8080, 2222, 9999}

CallIdentifyService ==
    /\ op = "idle"
    /\ \E p \in IdentifyPorts, b \in Banners :
         /\ arg' = [port |-> p, banner |-> b]
         /\ ret' = [kind |-> "return", value |-> _identify_service(p, b)]
    /\ op' = "_identify_service"
    /\ UNCHANGED <<max_threads, nm, scanVars, engineVars, detectVars>>

InitIdentify == InitWith(DefaultMaxThreads, FALSE)

NextIdentify == CallIdentifyService

SpecIdentify == InitIdentify /\ [][NextIdentify]_vars

----------------------------------------------------------------------------
(* The worker pool: ThreadPoolExecutor, submit, as_completed *)

MaxK == 2               \* largest max_threads a scanner is constructed with
MaxScanSpecLen == 3     \* length of the port-spec of a port_scan
MaxProbes == 2          \* ports probed on one target

ScanPoolWorkers == 50

\* a future's result is None or <<value>>
None == <<>>

Hosts == {"h1", "h2"}

ScanTypes == {"tcp_connect", "tcp_syn", "udp"}

\* every pool with the workers of the port-scan pool
PoolWorkers_fixed == ScanPoolWorkers

\* the workers of the pool the operation in progress created
PoolWorkers == IF op = "port_scan" THEN ScanPoolWorkers ELSE max_threads

Running == {i \in 1..Len(futures) : futures[i].state = "running"}

Pending == {i \in 1..Len(futures) : futures[i].state = "pending"}

\* executor.submit for every item of the list comprehension
Submitted(n) ==
    [i \in 1..n |-> [state |-> "pending", result |-> None, outcome |-> "none",
                      attempt |-> "none", unclosed |-> 0]]

\* a worker takes the oldest queued work item
ProbeStart ==
    /\ pc = "collect"
    /\ Pending # {}
    /\ Cardinality(Running) < PoolWorkers
    /\ LET i == CHOOSE j \in Pending : \A k \in Pending : j <= k IN
       futures' = [futures EXCEPT ![i].state = "running"]
    /\ sockets' = IF op = "discover_hosts" /\ arg.method # "tcp_syn"
                  THEN sockets ELSE sockets + 1
    /\ UNCHANGED <<op, arg, ret, max_threads, nm, pc, ti, port_list, doneq,
                   results, scan_results, log, engineVars, detectVars>>

\* `for future in as_completed(futures)`: the next finished future is
\* consumed and a result that is not None is appended to the local list
Collect ==
    /\ pc = "collect"
    /\ doneq # <<>>
    /\ LET i == Head(doneq)
           r == futures[i].result
       IN  /\ futures' = [futures EXCEPT ![i].state = "collected"]
           /\ results' =
                IF r = None THEN results
                ELSE IF op = "discover_hosts" /\ arg.method = "tcp_syn"
                        /\ \E k \in 1..Len(results) : results[k] = r[1]
                     THEN results
                ELSE Append(results, r[1])
    /\ doneq' = Tail(doneq)
    /\ UNCHANGED <<op, arg, ret, max_threads, nm, pc, ti, port_list,
                   scan_results, sockets, log, engineVars, detectVars>>

\* the pool is left as soon as every probe has been started
AllCollected_not_awaited == Pending = {}

\* the with block of the pool ends when as_completed has yielded every future
AllCollected == \A i \in 1..Len(futures) : futures[i].state = "collected"

----------------------------------------------------------------------------
(* NetworkScanner.port_scan, _tcp_connect_scan, _nmap_scan *)

ScanBanners == {<<>>, <<"S", "S", "H">>}

ScanResult(host, port, service, banner) ==
    [host |-> host, port |-> port, state |-> "open", service |-> service,
     version |-> <<>>, banner |-> banner]

\* banner[:200]
BannerLimit == 200

Truncate(b) == SubSeq(b, 1, IF Len(b) < BannerLimit THEN Len(b) ELSE BannerLimit)

\* the list as the probes completed, without the sort
SortedByPort_completion(rs) == rs

\* sorted(results, key=lambda x: x.port): stable, ascending
RECURSIVE SortedByPort(_)
SortedByPort(rs) ==
    IF Len(rs) = 0 THEN <<>>
    ELSE LET front == SortedByPort(SubSeq(rs, 1, Len(rs) - 1))
             x == rs[Len(rs)]
             k == Cardinality({j \in 1..Len(front) : front[j].port <= x.port})
         IN  SubSeq(front, 1, k) \o <<x>> \o SubSeq(front, k + 1, Len(front))

\* only targets with an open port get an entry
DictPut_nonempty(d, key, value) ==
    IF value = <<>> THEN d
    ELSE IF \E i \in 1..Len(d) : d[i][1] = key
    THEN [i \in 1..Len(d) |-> IF d[i][1] = key THEN <<key, value>> ELSE d[i]]
    ELSE Append(d, <<key, value>>)

\* results[target] = value on the dictionary, kept in insertion order
DictPut(d, key, value) ==
    IF \E i \in 1..Len(d) : d[i][1] = key
    THEN [i \in 1..Len(d) |-> IF d[i][1] = key THEN <<key, value>> ELSE d[i]]
    ELSE Append(d, <<key, value>>)

ScanSpecs ==
    {s \in SeqsUpTo({"1", "2", "3", ",", "-"}, MaxScanSpecLen) :
        ~_parse_ports(s).ok \/ Len(_parse_ports(s).list) <= MaxProbes}

\* port_scan is entered with one of the target lists and one of the port-specs
PortScanEntered(targetLists, specs) ==
    /\ op = "idle"
    /\ \E targets \in targetLists, ports \in specs, scan_type \in ScanTypes :
         arg' = [targets |-> targets, ports |-> ports, scan_type |-> scan_type]
    /\ op' = "port_scan"
    /\ pc' = "loop"
    /\ ti' = 0
    /\ scan_results' = <<>>
    /\ UNCHANGED <<ret, max_threads, nm, port_list, futures, doneq, results,
                   sockets, log, engineVars, detectVars>>

\* the deep scan is entered with no target or with one target
CallPortScan == PortScanEntered(SeqsUpTo(Hosts, 1), ScanSpecs)

\* the capability is consulted whatever self.nm holds
UsesNmap_unguarded == arg.scan_type \in {"tcp_syn", "udp"}

UsesNmap == nm /\ arg.scan_type \in {"tcp_syn", "udp"}

\* the loop over the targets is exhausted: return results
PortScanReturn ==
    /\ op = "port_scan" /\ pc = "loop"
    /\ ti = Len(arg.targets)
    /\ ret' = [kind |-> "return", value |-> scan_results]
    /\ pc' = "done"
    /\ UNCHANGED <<op, arg, max_threads, nm, ti, port_list, futures, doneq,
                   results, scan_results, sockets, log, engineVars, detectVars>>

\* _tcp_connect_scan up to the submission of the probes; the ValueError of
\* _parse_ports is caught nowhere and leaves port_scan
TcpConnectScanStart ==
    /\ op = "port_scan" /\ pc = "loop"
    /\ ti < Len(arg.targets)
    /\ ~UsesNmap
    /\ ti' = ti + 1
    /\ results' = <<>>
    /\ doneq' = <<>>
    /\ LET parsed == _parse_ports(arg.ports) IN
       IF parsed.ok
       THEN /\ port_list' = parsed.list
            /\ futures' = Submitted(Len(parsed.list))
            /\ pc' = "collect"
            /\ ret' = ret
       ELSE /\ ret' = [kind |-> "raise", value |-> <<"ValueError">>]
            /\ pc' = "done"
            /\ UNCHANGED <<port_list, futures>>
    /\ UNCHANGED <<op, arg, max_threads, nm, scan_results, sockets, log, engineVars, detectVars>>

\* how a connection attempt ends: connect_ex returns 0, returns the errno of a
\* refusal, returns the errno of an expired timeout, or an exception is raised
ScanOutcomes == {"open", "refused", "timeout", "error"}

\* a probe that takes every connect_ex that did not refuse for a success
scan_port_unchecked(target, port, outcome, banner) ==
    IF outcome \in {"open", "timeout"}
    THEN <<ScanResult(target, port, _identify_service(port, banner), Truncate(banner))>>
    ELSE None

\* a probe that also reports the ports that refused, as closed
scan_port_reports_closed(target, port, outcome, banner) ==
    IF outcome = "open"
    THEN <<ScanResult(target, port, _identify_service(port, banner), Truncate(banner))>>
    ELSE IF outcome = "refused"
    THEN <<[ScanResult(target, port, _identify_service(port, banner), Truncate(banner))
               EXCEPT !.state = "closed"]>>
    ELSE None

\* scan_port(port): the ScanResult of a port whose connect_ex returned 0; a
\* non-zero connect_ex and a caught exception both end in `return None`
scan_port(target, port, outcome, banner) ==
    IF outcome = "open"
    THEN <<ScanResult(target, port, _identify_service(port, banner), Truncate(banner))>>
    ELSE None

\* how the banner attempt of an open port ends: send and recv both return,
\* send raises, or recv raises (socket.timeout included)
BannerAttempts == {"received", "send_failed", "recv_failed"}

\* a banner attempt that keeps what the peer sent although the attempt failed
grab_banner_keeps_data(attempt, data) == data

\* banner = ""; try: send, banner = recv(1024).decode(); except: pass
grab_banner(attempt, data) == IF attempt = "received" THEN data ELSE <<>>

\* the sockets scan_port leaves without close(): both sock.close() calls are
\* inside the try block, so an exception raised by connect_ex skips them
scan_port_unclosed(outcome) == IF outcome = "error" THEN 1 ELSE 0

\* scan_port(port) runs to its end: connect_ex, the banner attempt,
\* _identify_service; every failure gives None
ScanPortFinish(i) ==
    /\ op = "port_scan" /\ pc = "collect"
    /\ i \in Running
    /\ \E outcome \in ScanOutcomes, attempt \in BannerAttempts, data \in ScanBanners :
         /\ outcome # "open" => attempt = "received" /\ data = <<>>
         /\ attempt = "send_failed" => data = <<>>
         /\ futures' = [futures EXCEPT ![i] =
               [state |-> "done",
                result |-> scan_port(arg.targets[ti], port_list[i], outcome,
                                     grab_banner(attempt, data)),
                outcome |-> outcome,
                attempt |-> IF outcome = "open" THEN attempt ELSE "none",
                unclosed |-> scan_port_unclosed(outcome)]]
    /\ doneq' = Append(doneq, i)
    /\ UNCHANGED <<op, arg, ret, max_threads, nm, pc, ti, port_list, results,
                   scan_results, sockets, log, engineVars, detectVars>>

\* the with block ends; return sorted(results, key=port) into results[target]
TcpConnectScanReturn ==
    /\ op = "port_scan" /\ pc = "collect"
    /\ AllCollected
    /\ scan_results' = DictPut(scan_results, arg.targets[ti], SortedByPort(results))
    /\ pc' = "loop"
    /\ UNCHANGED <<op, arg, ret, max_threads, nm, ti, port_list, futures, doneq,
                   results, sockets, log, engineVars, detectVars>>

NmapPorts == {1, 3}

\* the orders in which the external scanner may report a set of open ports
Orderings(S) ==
    {f \in [1..Cardinality(S) -> S] : \A i, j \in 1..Cardinality(S) : i # j => f[i] # f[j]}

\* _nmap_scan: the external scanner reads the port-spec itself; it fails (the
\* exception is logged and the list is empty), does not report the target, or
\* reports open ports in an order of its own
NmapScan ==
    /\ op = "port_scan" /\ pc = "loop"
    /\ ti < Len(arg.targets)
    /\ UsesNmap
    /\ ti' = ti + 1
    /\ \/ /\ log' = Append(log, "Nmap scan failed")
          /\ scan_results' = DictPut(scan_results, arg.targets[ti + 1], <<>>)
       \/ /\ log' = log
          /\ \E S \in SUBSET NmapPorts : \E order \in Orderings(S) :
               scan_results' = DictPut(scan_results, arg.targets[ti + 1],
                    [k \in 1..Len(order) |->
                        [host |-> arg.targets[ti + 1], port |-> order[k],
                         state |-> "open", service |-> "unknown",
                         version |-> <<>>, banner |-> <<>>]])
    /\ UNCHANGED <<op, arg, ret, max_threads, nm, pc, port_list, futures, doneq,
                   results, sockets, engineVars, detectVars>>

InitScan == \E K \in 1..MaxK, nmap \in BOOLEAN : InitWith(K, nmap)

NextScan ==
    \/ CallPortScan
    \/ TcpConnectScanStart
    \/ ProbeStart
    \/ \E i \in 1..MaxProbes : ScanPortFinish(i)
    \/ Collect
    \/ TcpConnectScanReturn
    \/ NmapScan
    \/ PortScanReturn

SpecScan == InitScan /\ [][NextScan]_vars

MaxTargetList == 2      \* targets handed to one port_scan over several targets

\* port-specs of a scan over several targets: one port, two ports, a
\* malformed range
TargetScanSpecs == {<<"3">>, <<"1", ",", "3">>, <<"3", "-">>}

CallPortScanTargets == PortScanEntered(SeqsUpTo(Hosts, MaxTargetList), TargetScanSpecs)

InitScanTargets == \E nmap \in BOOLEAN : InitWith(DefaultMaxThreads, nmap)

NextScanTargets ==
    \/ CallPortScanTargets
    \/ TcpConnectScanStart
    \/ ProbeStart
    \/ \E i \in 1..MaxProbes : ScanPortFinish(i)
    \/ Collect
    \/ TcpConnectScanReturn
    \/ NmapScan
    \/ PortScanReturn

SpecScanTargets == InitScanTargets /\ [][NextScanTargets]_vars

\* target lists of a scan under fair scheduling: none, one, two targets, one
\* target twice
FairTargetLists == {<<>>, <<"h1">>, <<"h1", "h2">>, <<"h2", "h2">>}

CallPortScanFair == PortScanEntered(FairTargetLists, TargetScanSpecs)

NextScanFair ==
    \/ CallPortScanFair
    \/ TcpConnectScanStart
    \/ ProbeStart
    \/ \E i \in 1..MaxProbes : ScanPortFinish(i)
    \/ Collect
    \/ TcpConnectScanReturn
    \/ NmapScan
    \/ PortScanReturn

\* every thread keeps being scheduled and every probe terminates: the calling
\* thread goes on whenever it can, a worker takes queued work whenever one is
\* free, a running probe ends
FairScan ==
    /\ WF_vars(TcpConnectScanStart)
    /\ WF_vars(NmapScan)
    /\ WF_vars(ProbeStart)
    /\ \A i \in 1..MaxProbes : WF_vars(ScanPortFinish(i))
    /\ WF_vars(Collect)
    /\ WF_vars(TcpConnectScanReturn)
    /\ WF_vars(PortScanReturn)

SpecScanFair == InitScanTargets /\ [][NextScanFair]_vars /\ FairScan

----------------------------------------------------------------------------
(* NetworkScanner.discover_hosts, _ping_sweep, _tcp_syn_sweep *)

NetworkInputs ==
    {"10.0.0.0/30", "10.0.0.1/30", "10.0.0.7", "10.0.0.0/33", "10.0.0.256", "lan", ""}

\* list(ipaddress.ip_network(network, strict=False).hosts()) on these inputs;
\* the others make ip_network raise ValueError
NetworkHosts(network) ==
    CASE network \in {"10.0.0.0/30", "10.0.0.1/30"} -> <<"10.0.0.1", "10.0.0.2">>
      [] network = "10.0.0.7" -> <<"10.0.0.7">>
      [] OTHER -> <<>>

ValidNetwork(network) == network \in {"10.0.0.0/30", "10.0.0.1/30", "10.0.0.7"}

Methods == {"ping", "arp", "tcp_syn", "icmp"}

Platforms == {"linux", "windows"}

\* discover_hosts up to the submission of the probes.  Every exception of the
\* try block (the ValueError of ip_network, the AttributeError of the missing
\* _arp_sweep) is caught and logged, and the empty active_hosts is returned
CallDiscoverHosts ==
    /\ op = "idle"
    /\ op' = "discover_hosts"
    /\ \E network \in NetworkInputs, method \in Methods, platform \in Platforms :
         /\ arg' = [network |-> network, method |-> method, platform |-> platform]
         /\ IF ~ValidNetwork(network) \/ (method = "arp" /\ platform = "linux")
            THEN /\ log' = Append(log, "Host discovery failed")
                 /\ ret' = [kind |-> "return", value |-> <<>>]
                 /\ pc' = "done"
                 /\ UNCHANGED futures
            ELSE /\ futures' = Submitted(Len(NetworkHosts(network)))
                 /\ pc' = "collect"
                 /\ UNCHANGED <<log, ret>>
    /\ results' = <<>>
    /\ doneq' = <<>>
    /\ UNCHANGED <<max_threads, nm, ti, port_list, scan_results, sockets, engineVars, detectVars>>

\* how a host probe ends: ping exits with 0 (a trial connection succeeds),
\* ping exits with another code (every trial connection is refused), the
\* probe times out, or an exception is raised
ProbeOutcomes == {"live", "nonzero", "timeout", "exception"}

\* a probe that reports every host whose probe ended without an exception
ping_host_any_exit(host, outcome) ==
    IF outcome \in {"live", "nonzero"} THEN <<host>> ELSE None

\* ping_host(host) / check_host(host): str(host) on success; a non-zero exit,
\* TimeoutExpired and every other exception end in `return None`
ping_host(host, outcome) ==
    IF outcome = "live" THEN <<host>> ELSE None

\* _tcp_syn_sweep: common_ports
common_ports == <<22, 23, 25, 53, 80, 110, 143, 443, 993, 995>>

\* how one trial connection ends: connect_ex returns 0, connect_ex returns an
\* errno (refusal, expired timeout), or an exception is raised
TrialOutcomes == {"connected", "refused", "exception"}

\* a check_host that gives the host up at the first exception
RECURSIVE check_host_from_stops(_, _, _, _)
check_host_from_stops(host, trials, i, unclosed) ==
    IF i > Len(common_ports)
    THEN [result |-> None, tried |-> i - 1, unclosed |-> unclosed]
    ELSE IF trials[i] = "connected"
    THEN [result |-> <<host>>, tried |-> i, unclosed |-> unclosed]
    ELSE IF trials[i] = "exception"
    THEN [result |-> None, tried |-> i, unclosed |-> unclosed + 1]
    ELSE check_host_from_stops(host, trials, i + 1, unclosed)

\* the loop of check_host from the i-th common port on: the first connect_ex
\* that returns 0 ends it with str(host); an exception goes on to the next
\* port (`continue`) past the sock.close() of the try block
RECURSIVE check_host_from(_, _, _, _)
check_host_from(host, trials, i, unclosed) ==
    IF i > Len(common_ports)
    THEN [result |-> None, tried |-> i - 1, unclosed |-> unclosed]
    ELSE IF trials[i] = "connected"
    THEN [result |-> <<host>>, tried |-> i, unclosed |-> unclosed]
    ELSE IF trials[i] = "exception"
    THEN check_host_from(host, trials, i + 1, unclosed + 1)
    ELSE check_host_from(host, trials, i + 1, unclosed)

\* check_host(host): the result, the number of ports tried and the number of
\* sockets left without close()
check_host(host, trials) == check_host_from(host, trials, 1, 0)

\* the outcome of a whole check_host probe
TrialsOutcome(trials) ==
    IF \E k \in 1..Len(trials) : trials[k] = "connected" THEN "live"
    ELSE IF \A k \in 1..Len(trials) : trials[k] = "exception" THEN "exception"
    ELSE "nonzero"

MaxTrialPrefix == 2     \* common ports whose trial varies freely in a sweep

PadTrials(prefix, fill) ==
    [k \in 1..Len(common_ports) |-> IF k <= Len(prefix) THEN prefix[k] ELSE fill]

\* the trials of one host in a sweep: a free prefix, then every further port
\* refuses, or every further port raises
SweepTrials ==
    {PadTrials(p, fill) : p \in SeqsUpTo(TrialOutcomes, MaxTrialPrefix),
                          fill \in {"refused", "exception"}}

\* ping_host / check_host runs to its end: str(host) or None
DiscoverProbeFinish(i) ==
    /\ op = "discover_hosts" /\ pc = "collect"
    /\ i \in Running
    /\ LET host == NetworkHosts(arg.network)[i] IN
       IF arg.method = "tcp_syn"
       THEN \E trials \in SweepTrials :
              LET r == check_host(host, trials) IN
              futures' = [futures EXCEPT ![i] =
                  [state |-> "done", result |-> r.result,
                   outcome |-> TrialsOutcome(trials),
                   attempt |-> "none", unclosed |-> r.unclosed]]
       ELSE \E outcome \in ProbeOutcomes :
              futures' = [futures EXCEPT ![i] =
                  [state |-> "done", result |-> ping_host(host, outcome),
                   outcome |-> outcome, attempt |-> "none", unclosed |-> 0]]
    /\ doneq' = Append(doneq, i)
    /\ UNCHANGED <<op, arg, ret, max_threads, nm, pc, ti, port_list, results,
                   scan_results, sockets, log, engineVars, detectVars>>

\* the sweep's with block ends; discover_hosts returns active_hosts
DiscoverReturn ==
    /\ op = "discover_hosts" /\ pc = "collect"
    /\ AllCollected
    /\ ret' = [kind |-> "return", value |-> results]
    /\ pc' = "done"
    /\ UNCHANGED <<op, arg, max_threads, nm, ti, port_list, futures, doneq,
                   results, scan_results, sockets, log, engineVars, detectVars>>

InitDiscover == \E K \in 1..MaxK : InitWith(K, FALSE)

NextDiscover ==
    \/ CallDiscoverHosts
    \/ ProbeStart
    \/ \E i \in 1..MaxProbes : DiscoverProbeFinish(i)
    \/ Collect
    \/ DiscoverReturn

SpecDiscover == InitDiscover /\ [][NextDiscover]_vars

\* check_host as the sweep calls it, on every way the ten trials can end
CallCheckHost ==
    /\ op = "idle"
    /\ \E host \in Hosts, trials \in [1..Len(common_ports) -> TrialOutcomes] :
         /\ arg' = [host |-> host, trials |-> trials]
         /\ ret' = [kind |-> "return", value |-> check_host(host, trials)]
    /\ op' = "check_host"
    /\ UNCHANGED <<max_threads, nm, scanVars, engineVars, detectVars>>

InitCheckHost == InitWith(DefaultMaxThreads, FALSE)

NextCheckHost == CallCheckHost

SpecCheckHost == InitCheckHost /\ [][NextCheckHost]_vars

----------------------------------------------------------------------------
(* NetworkScanner.service_detection and the per-service probes *)

MaxEntries == 2         \* ScanResults handed to one service_detection

Whitespace == {" ", "\n", "\r", "\t"}

\* str.startswith(prefix)
StartsWith(s, prefix) ==
    Len(s) >= Len(prefix) /\ SubSeq(s, 1, Len(prefix)) = prefix

RECURSIVE LStrip(_)
LStrip(s) == IF Len(s) > 0 /\ s[1] \in Whitespace THEN LStrip(Tail(s)) ELSE s

RECURSIVE RStrip(_)
RStrip(s) ==
    IF Len(s) > 0 /\ s[Len(s)] \in Whitespace
    THEN RStrip(SubSeq(s, 1, Len(s) - 1)) ELSE s

\* str.strip()
Strip(s) == RStrip(LStrip(s))

\* s.split(sep, 1)[1]: what follows the first separator
AfterFirst(s, sep) ==
    LET k == CHOOSE i \in 1..Len(s) : s[i] = sep /\ \A j \in 1..(i - 1) : s[j] # sep
    IN  SubSeq(s, k + 1, Len(s))

\* how the deeper probe of one entry ends: connect raises, send raises, recv
\* raises (socket.timeout included), or the peer's data is received
DetectSteps == {"connect_failed", "send_failed", "recv_failed", "answered"}

ServerHeader == <<"s", "e", "r", "v", "e", "r", ":">>

\* the lines of the response that start with the Server header
ServerLines(response) ==
    {k \in 1..Len(Split(response, "\n")) :
        StartsWith(StrLower(Split(response, "\n")[k]), ServerHeader)}

\* a web probe that clears the version when no Server header arrives
_detect_web_service_clears(result, step, response) ==
    IF step = "answered" /\ ServerLines(response) # {}
    THEN LET k == CHOOSE i \in ServerLines(response) :
                      \A j \in ServerLines(response) : i <= j
         IN  [result EXCEPT !.version = Strip(AfterFirst(Split(response, "\n")[k], ":"))]
    ELSE [result EXCEPT !.version = <<>>]

\* _detect_web_service: result.version is assigned from the first Server
\* line; every exception is swallowed; the object given is the one returned
_detect_web_service(result, step, response) ==
    IF step = "answered" /\ ServerLines(response) # {}
    THEN LET k == CHOOSE i \in ServerLines(response) :
                      \A j \in ServerLines(response) : i <= j
         IN  [result EXCEPT !.version = Strip(AfterFirst(Split(response, "\n")[k], ":"))]
    ELSE result

SshGreeting == <<"S", "S", "H", "-">>

\* _detect_ssh_service: result.version is assigned from an SSH- greeting
_detect_ssh_service(result, step, banner) ==
    IF step = "answered" /\ StartsWith(banner, SshGreeting)
    THEN [result EXCEPT !.version = Strip(banner)]
    ELSE result

\* _detect_ftp_service: result.banner is assigned from a 220 greeting
_detect_ftp_service(result, step, banner) ==
    IF step = "answered" /\ Contains(banner, <<"2", "2", "0">>)
    THEN [result EXCEPT !.banner = Strip(banner)]
    ELSE result

\* the body of the loop of service_detection on one entry: the object after
\* the probes, which is also the object appended to enhanced_results
enhanced_result(result, step, data) ==
    IF step = "connect_failed" THEN result
    ELSE IF result.service \in {"http", "https"} THEN _detect_web_service(result, step, data)
    ELSE IF result.service = "ssh" THEN _detect_ssh_service(result, step, data)
    ELSE IF result.service = "ftp" THEN _detect_ftp_service(result, step, data)
    ELSE result

\* sock.close() is the last statement of the try block: an exception raised
\* by connect skips it, the per-service probes swallow their own exceptions
detect_closes(step) == step # "connect_failed"

\* what a peer may send to a deeper probe
DetectData ==
    { <<>>,
      <<"H", "T", "T", "P">>,
      <<"S", "e", "r", "v", "e", "r", ":", " ", "n", "x", "\r">>,
      <<"H", "T", "T", "P", "\n", "S", "E", "R", "V", "E", "R", ":", "a", ":", "b">>,
      <<"S", "S", "H", "-", "2", "\n">>,
      <<"s", "s", "h">>,
      <<"2", "2", "0", " ", "F", "T", "P", "\n">>,
      <<"5", "0", "0">> }

\* the ScanResults a caller hands over: results of a connect scan, and
\* results that already carry a version
DetectEntries ==
    {ScanResult("h1", p, _identify_service(p, <<>>), <<>>) : p \in {80, 443, 22, 21, 23}}
    \cup {[ScanResult("h1", p, _identify_service(p, <<>>), <<>>) EXCEPT !.version = <<"9">>] :
            p \in {80, 22}}

\* service_detection(scan_results) is entered; enhanced_results = []
CallServiceDetection ==
    /\ op = "idle"
    /\ \E given \in SeqsUpTo(DetectEntries, MaxEntries) :
         /\ arg' = [scan_results |-> given]
         /\ objects' = given
    /\ op' = "service_detection"
    /\ pc' = "loop"
    /\ ti' = 0
    /\ results' = <<>>
    /\ probes' = <<>>
    /\ UNCHANGED <<ret, max_threads, nm, port_list, futures, doneq, scan_results,
                   sockets, log, engineVars>>

\* one iteration of `for result in scan_results`: the socket, connect, the
\* per-service probe, close, and enhanced_results.append.  enhanced_results
\* holds references: the index of the object in the list given
DetectEntry ==
    /\ op = "service_detection" /\ pc = "loop"
    /\ ti < Len(objects)
    /\ \E step \in DetectSteps, data \in DetectData :
         /\ step # "answered" => data = <<>>
         /\ step = "send_failed" => objects[ti + 1].service \in {"http", "https"}
         /\ step = "recv_failed" =>
                objects[ti + 1].service \in {"http", "https", "ssh", "ftp"}
         /\ objects[ti + 1].service \notin {"http", "https", "ssh", "ftp"} => data = <<>>
         /\ objects' = [objects EXCEPT ![ti + 1] = enhanced_result(@, step, data)]
         /\ probes' = Append(probes, [step |-> step, data |-> data,
                                      closed |-> detect_closes(step)])
    /\ results' = Append(results, ti + 1)
    /\ sockets' = sockets + 1
    /\ ti' = ti + 1
    /\ UNCHANGED <<op, arg, ret, max_threads, nm, pc, port_list, futures, doneq,
                   scan_results, log, engineVars>>

\* the loop is exhausted: return enhanced_results
ServiceDetectionReturn ==
    /\ op = "service_detection" /\ pc = "loop"
    /\ ti = Len(objects)
    /\ ret' = [kind |-> "return", value |-> results]
    /\ pc' = "done"
    /\ UNCHANGED <<op, arg, max_threads, nm, ti, port_list, futures, doneq,
                   results, scan_results, sockets, log, engineVars, detectVars>>

InitDetect == InitWith(DefaultMaxThreads, FALSE)

NextDetect ==
    \/ CallServiceDetection
    \/ DetectEntry
    \/ ServiceDetectionReturn

SpecDetect == InitDetect /\ [][NextDetect]_vars

----------------------------------------------------------------------------
(* VulnerabilityScanner: the rule engine.  Its accumulators are the instance *)
(* fields `vulnerabilities` and `security_issues`, which the check methods   *)
(* append to (test_weak_protocol_detection, CustomVulnerabilityScanner).     *)

Severities == {"critical", "high", "medium", "low", "info"}

\* the fixed words of a title; the title also names the service
TitleText(kind) ==
    IF kind = "WEAK_PROTO" THEN "Insecure Protocol" ELSE "Exposed Database"

Vulnerability(kind, service, host, port, severity) ==
    [id |-> <<kind, service, host, port>>, title |-> <<TitleText(kind), service>>,
     severity |-> severity, affected_service |-> service, host |-> host,
     port |-> port]

SecurityIssue(kind, service, host, port, risk) ==
    [id |-> <<kind, service, host, port>>, risk_level |-> risk,
     host |-> host, service |-> service]

\* clear-text protocols and their fixed severity
WeakProtocols == [s \in {"telnet", "ftp"} |-> IF s = "telnet" THEN "high" ELSE "medium"]

\* database ports and their product
DatabasePorts ==
    [p \in {3306, 5432, 1433, 27017, 6379} |->
        CASE p = 3306 -> <<"M", "y", "S", "Q", "L">>
          [] p = 5432 -> <<"P", "o", "s", "t", "g", "r", "e", "S", "Q", "L">>
          [] p = 1433 -> <<"S", "Q", "L", " ", "S", "e", "r", "v", "e", "r">>
          [] p = 27017 -> <<"M", "o", "n", "g", "o", "D", "B">>
          [] p = 6379 -> <<"R", "e", "d", "i", "s">>]

DatabaseLabels == {"mysql", "postgresql", "sql server", "mongodb", "redis"}

\* the characters of a service label
Spell(label) ==
    CASE label = "mysql" -> <<"m", "y", "s", "q", "l">>
      [] label = "postgresql" -> <<"p", "o", "s", "t", "g", "r", "e", "s", "q", "l">>
      [] label = "sql server" -> <<"s", "q", "l", " ", "s", "e", "r", "v", "e", "r">>
      [] label = "mongodb" -> <<"m", "o", "n", "g", "o", "d", "b">>
      [] label = "redis" -> <<"r", "e", "d", "i", "s">>

\* the service label a string spells, "other" when it spells none
Label(chars) ==
    IF \E l \in DatabaseLabels : Spell(l) = chars
    THEN CHOOSE l \in DatabaseLabels : Spell(l) = chars
    ELSE "other"

\* affected_service = db_ports[result.port].lower()
DatabaseService(port) == Label(StrLower(DatabasePorts[port]))

\* commonly targeted ports and their fixed risk level
DangerousPorts ==
    [p \in {21, 23, 445, 3389} |-> IF p \in {23, 3389} THEN "high" ELSE "medium"]

\* the conventional default port of a service
DefaultPorts ==
    [s \in {"ftp", "ssh", "telnet", "mysql", "postgresql"} |->
        CASE s = "ftp" -> 21
          [] s = "ssh" -> 22
          [] s = "telnet" -> 23
          [] s = "mysql" -> 3306
          [] s = "postgresql" -> 5432]

\* the protocol recognised by the port it conventionally runs on
WeakProtocolCheck_by_port(host, r) ==
    IF r.port \in {21, 23}
    THEN <<Vulnerability("WEAK_PROTO", IF r.port = 23 THEN "telnet" ELSE "ftp", host,
                         r.port, IF r.port = 23 THEN "high" ELSE "medium")>>
    ELSE <<>>

WeakProtocolCheck(host, r) ==
    IF r.service \in DOMAIN WeakProtocols
    THEN <<Vulnerability("WEAK_PROTO", r.service, host, r.port, WeakProtocols[r.service])>>
    ELSE <<>>

\* the database recognised by the service label of the result
DatabaseCheck_by_label(host, r) ==
    IF r.port \in DOMAIN DatabasePorts /\ r.service = DatabaseService(r.port)
    THEN <<Vulnerability("DB_EXPOSURE", DatabaseService(r.port), host, r.port, "high")>>
    ELSE <<>>

DatabaseCheck(host, r) ==
    IF r.port \in DOMAIN DatabasePorts
    THEN <<Vulnerability("DB_EXPOSURE", DatabaseService(r.port), host, r.port, "high")>>
    ELSE <<>>

DangerousPortCheck(host, r) ==
    IF r.port \in DOMAIN DangerousPorts
    THEN <<SecurityIssue("DANGEROUS_PORT", r.service, host, r.port, DangerousPorts[r.port])>>
    ELSE <<>>

DefaultPortCheck(host, r) ==
    IF r.service \in DOMAIN DefaultPorts /\ DefaultPorts[r.service] = r.port
    THEN <<SecurityIssue("DEFAULT_PORT", r.service, host, r.port, "medium")>>
    ELSE <<>>

\* CustomVulnerabilityScanner._check_ssh_weaknesses
SshCheck(host, r) ==
    IF r.port = 22 /\ Contains(StrLower(r.service), <<"s", "s", "h">>)
    THEN <<SecurityIssue("SSH_DEFAULT_PORT", "ssh", host, 22, "medium")>>
    ELSE <<>>

\* CustomVulnerabilityScanner._check_database_exposure
CustomDatabaseCheck(host, r) ==
    IF r.port \in DOMAIN DatabasePorts
    THEN <<Vulnerability("DB_EXPOSURE", DatabaseService(r.port), host, r.port, "high")>>
    ELSE <<>>

\* CustomVulnerabilityScanner._check_web_server_security
WebCheck(host, r) ==
    IF r.port \in {8080, 8443, 8000}
    THEN <<SecurityIssue("WEB_NONSTANDARD_PORT", "web", host, r.port, "low")>>
    ELSE <<>>

\* one check applied to one ScanResult of a host
CheckResult(check, host, r) ==
    CASE check = "weak_protocol" -> WeakProtocolCheck(host, r)
      [] check = "database" -> DatabaseCheck(host, r)
      [] check = "dangerous_port" -> DangerousPortCheck(host, r)
      [] check = "default_port" -> DefaultPortCheck(host, r)
      [] check = "custom_ssh" -> SshCheck(host, r)
      [] check = "custom_database" -> CustomDatabaseCheck(host, r)
      [] check = "custom_web" -> WebCheck(host, r)

\* the findings of one check on one host's results, in the order of the results
RECURSIVE FindingsOf(_, _, _)
FindingsOf(check, host, rs) ==
    IF Len(rs) = 0 THEN <<>>
    ELSE CheckResult(check, host, Head(rs)) \o FindingsOf(check, host, Tail(rs))

\* for host, results in scan_results.items(): one check over every host
RECURSIVE OverHosts(_, _)
OverHosts(check, S) ==
    IF Len(S) = 0 THEN <<>>
    ELSE FindingsOf(check, Head(S)[1], Head(S)[2]) \o OverHosts(check, Tail(S))

\* a histogram that only has the levels that occur
SeverityDistribution_occurring(vs) ==
    [s \in {vs[i].severity : i \in 1..Len(vs)} |->
        Cardinality({i \in 1..Len(vs) : vs[i].severity = s})]

\* the histogram over exactly the five levels
SeverityDistribution(vs) ==
    [s \in Severities |-> Cardinality({i \in 1..Len(vs) : vs[i].severity = s})]

Summary(vs, is) ==
    [total_vulnerabilities |-> Len(vs),
     total_security_issues |-> Len(is),
     severity_distribution |-> SeverityDistribution(vs),
     affected_hosts |-> {vs[i].host : i \in 1..Len(vs)}]

BaseRecommendations == <<"Conduct regular security assessments">>

\* recommendations only when something was found
Recommendations_when_found(vs, is) ==
    IF vs = <<>> /\ is = <<>> THEN <<>> ELSE BaseRecommendations

\* the recommendations of a report: the fixed base list
Recommendations(vs, is) == BaseRecommendations

\* the list left by an earlier call, kept instead of a fresh one
FreshVulnerabilities_reused(old) == old

\* self.vulnerabilities = [] : a fresh list bound to the instance field
FreshVulnerabilities(old) == <<>>

\* the list left by an earlier call, kept instead of a fresh one
FreshIssues_reused(old) == old

\* self.security_issues = [] : a fresh list bound to the instance field
FreshIssues(old) == <<>>

\* open ports a scan may have found, ascending as port_scan returns them
EnginePool == << <<21, "ftp">>, <<3306, "mysql">>, <<8080, "http">> >>

PoolSet == {EnginePool[i] : i \in 1..Len(EnginePool)}

HostResults(host, S) ==
    LET chosen == SelectSeq(EnginePool, LAMBDA e : e \in S) IN
    [i \in 1..Len(chosen) |-> ScanResult(host, chosen[i][1], chosen[i][2], <<>>)]

\* scan results of one host
OneHostInputs ==
    {<< <<h, HostResults(h, S)>> >> : h \in Hosts, S \in SUBSET PoolSet}

\* host -> list of ScanResult, as port_scan builds it
EngineInputs ==
    {<<>>} \cup OneHostInputs
    \cup {p[1] \o p[2] : p \in {q \in OneHostInputs \X OneHostInputs :
                                     q[1][1][1] = "h1" /\ q[2][1][1] = "h2"}}

InProgress(t) == calls[t].pc = "checks"

\* assess() begins: the accumulators are emptied
AssessBegin(t, inputs) ==
    /\ op \in {"idle", "assess", "custom_assessment"}
    /\ ~InProgress(t)
    /\ \E S \in inputs :
         calls' = [calls EXCEPT ![t] =
                      [pc |-> "checks", input |-> S, hi |-> 0, report |-> <<>>]]
    /\ vulnerabilities' = FreshVulnerabilities(vulnerabilities)
    /\ security_issues' = FreshIssues(security_issues)
    /\ op' = "assess"
    /\ UNCHANGED <<arg, ret, max_threads, nm, scanVars, detectVars>>

\* the default-port check skipped for a result the dangerous-port check flagged
HostIssues_first_match(host, rs) ==
    FindingsOf("dangerous_port", host, rs)
        \o FindingsOf("default_port", host,
                      SelectSeq(rs, LAMBDA r : DangerousPortCheck(host, r) = <<>>))

\* the vulnerabilities the checks add for one host
HostVulnerabilities(host, rs) ==
    FindingsOf("weak_protocol", host, rs) \o FindingsOf("database", host, rs)

\* the security issues the checks add for one host
HostIssues(host, rs) ==
    FindingsOf("dangerous_port", host, rs) \o FindingsOf("default_port", host, rs)

\* the four checks run on the next host and append to the instance fields
AssessHost(t) ==
    /\ InProgress(t)
    /\ calls[t].hi < Len(calls[t].input)
    /\ LET host == calls[t].input[calls[t].hi + 1][1]
           rs == calls[t].input[calls[t].hi + 1][2]
       IN  /\ vulnerabilities' = vulnerabilities \o HostVulnerabilities(host, rs)
           /\ security_issues' = security_issues \o HostIssues(host, rs)
    /\ calls' = [calls EXCEPT ![t].hi = @ + 1]
    /\ UNCHANGED <<op, arg, ret, max_threads, nm, scanVars, detectVars>>

\* the report is built from the instance fields and returned
AssessReturn(t) ==
    /\ InProgress(t)
    /\ calls[t].hi = Len(calls[t].input)
    /\ calls' = [calls EXCEPT ![t].pc = "done",
                              ![t].report =
                                 [vulnerabilities |-> vulnerabilities,
                                  security_issues |-> security_issues,
                                  summary |-> Summary(vulnerabilities, security_issues),
                                  recommendations |->
                                      Recommendations(vulnerabilities, security_issues)]]
    /\ UNCHANGED <<op, arg, ret, max_threads, nm, scanVars, vulnerabilities,
                   security_issues, detectVars>>

\* custom_assessment(scan_results) right after assess(scan_results), as in
\* advanced_assessment_example: it appends to the instance fields; the lists
\* it returns are the instance fields themselves
CallCustomAssessment ==
    /\ op = "assess"
    /\ \A t \in Callers : ~InProgress(t)
    /\ \E t \in Callers :
         /\ calls[t].pc = "done"
         /\ calls[t].report.vulnerabilities = vulnerabilities
         /\ calls[t].report.security_issues = security_issues
         /\ LET S == calls[t].input
                vs == vulnerabilities \o OverHosts("custom_database", S)
                is == security_issues \o OverHosts("custom_ssh", S) \o OverHosts("custom_web", S)
            IN  /\ vulnerabilities' = vs
                /\ security_issues' = is
    /\ op' = "custom_assessment"
    /\ UNCHANGED <<arg, ret, max_threads, nm, scanVars, calls, detectVars>>

InitAssess == InitWith(DefaultMaxThreads, FALSE)

\* one caller: an invocation begins when no other is in progress
NextAssess ==
    \/ \E t \in Callers :
         (\A u \in Callers : ~InProgress(u)) /\ AssessBegin(t, EngineInputs)
    \/ \E t \in Callers : AssessHost(t)
    \/ \E t \in Callers : AssessReturn(t)
    \/ CallCustomAssessment

SpecAssess == InitAssess /\ [][NextAssess]_vars

\* two callers on the same engine instance, each on one host's results
NextAssessConcurrent ==
    \/ \E t \in Callers : AssessBegin(t, OneHostInputs)
    \/ \E t \in Callers : AssessHost(t)
    \/ \E t \in Callers : AssessReturn(t)

SpecAssessConcurrent == InitAssess /\ [][NextAssessConcurrent]_vars

\* ports a scan may report open, ascending, each with the service labels and
\* banners it may carry: the table's label, the label of a banner signature,
\* the label the external scanner gives
OpenPortPool ==
    << <<21, {<<"ftp", <<>> >>}>>,
       <<23, {<<"telnet", <<>> >>, <<"unknown", <<>> >>}>>,
       <<2323, {<<"telnet", <<>> >>}>>,
       <<3306, {<<"mysql", <<>> >>, <<"http", <<"H", "T", "T", "P">> >>,
                <<"unknown", <<>> >>}>>,
       <<5432, {<<"postgresql", <<>> >>, <<"ssh", <<"S", "S", "H">> >>}>>,
       <<8080, {<<"http", <<>> >>}>> >>

\* the result lists of a host over the ports from the i-th of the pool on
RECURSIVE ResultLists(_, _)
ResultLists(host, i) ==
    IF i > Len(OpenPortPool) THEN {<<>>}
    ELSE LET rest == ResultLists(host, i + 1) IN
         rest \cup {<<ScanResult(host, OpenPortPool[i][1], o[1], o[2])>> \o r :
                        o \in OpenPortPool[i][2], r \in rest}

\* the result lists with telnet on 23 and mysql on 3306 at most
TelnetMysqlLists(host) ==
    {rs \in ResultLists(host, 1) :
        \A m \in 1..Len(rs) : /\ rs[m].port \in {23, 3306}
                              /\ rs[m].service \in {"telnet", "mysql"}}

\* scan results of no host, of one host, and of two hosts
AssessInputs ==
    {<<>>}
    \cup UNION {{<< <<h, rs>> >> : rs \in ResultLists(h, 1)} : h \in Hosts}
    \cup {<< <<"h1", r1>>, <<"h2", r2>> >> :
            r1 \in TelnetMysqlLists("h1"), r2 \in TelnetMysqlLists("h2")}

\* one assess() call at a time on the results of a scan
NextAssessOnce ==
    \/ AssessBegin(1, AssessInputs)
    \/ AssessHost(1)
    \/ AssessReturn(1)

SpecAssessOnce == InitAssess /\ [][NextAssessOnce]_vars

----------------------------------------------------------------------------
(* The port-spec grammar, read one character at a time *)

\* state of the reader: "start" of a token, in the "first" number, just after
\* the "dash", in the "second" number, or "bad"
GrammarStep(q, c) ==
    IF q = "bad" THEN "bad"
    ELSE IF c \in DigitSet
         THEN (IF q \in {"start", "first"} THEN "first" ELSE "second")
    ELSE IF c = "-" THEN (IF q = "first" THEN "dash" ELSE "bad")
    ELSE IF c = "," THEN (IF q \in {"first", "second"} THEN "start" ELSE "bad")
    ELSE "bad"

RECURSIVE GrammarRun(_, _, _)
GrammarRun(s, i, q) ==
    IF i > Len(s) THEN q ELSE GrammarRun(s, i + 1, GrammarStep(q, s[i]))

\* comma-separated tokens, each a single integer or an inclusive range a-b
WellFormedSpec(s) == GrammarRun(s, 1, "start") \in {"first", "second"}

\* the ports a well-formed spec names, in token order: lo is the first number
\* of a range (-1 outside a range), cur the number being read
RECURSIVE NamedFrom(_, _, _, _)
NamedFrom(s, i, lo, cur) ==
    LET emit == IF lo < 0 THEN <<cur>>
                ELSE [k \in 1..(IF cur < lo THEN 0 ELSE cur - lo + 1) |-> lo + k - 1]
    IN  IF i > Len(s) THEN emit
        ELSE IF s[i] = "," THEN emit \o NamedFrom(s, i + 1, -1, 0)
        ELSE IF s[i] = "-" THEN NamedFrom(s, i + 1, cur, 0)
        ELSE NamedFrom(s, i + 1, lo, 10 * cur + DigitVal(s[i]))

NamedPorts(s) == NamedFrom(s, 1, -1, 0)

Chars_22_80_82_443 ==
    <<"2", "2", ",", "8", "0", "-", "8", "2", ",", "4", "4", "3">>

\* C3: for every well-formed port-spec _parse_ports returns exactly the ports
\* named by its tokens, in token order: each single integer and every integer
\* of each inclusive range
C3_ParsePortsNamesTokens ==
    (op = "_parse_ports" /\ WellFormedSpec(arg.ports))
        => (ret.kind = "return" /\ ret.value = NamedPorts(arg.ports))

\* "22,80-82,443" has been parsed to 22, 80, 81, 82, 443
C3_Witness ==
    /\ op = "_parse_ports"
    /\ arg.ports = Chars_22_80_82_443
    /\ ret.kind = "return"
    /\ ret.value = <<22, 80, 81, 82, 443>>

----------------------------------------------------------------------------
(* Service identification *)

Signatures == {"http", "ssh", "ftp", "smtp"}

SignatureChars(sig) ==
    CASE sig = "http" -> <<"h", "t", "t", "p">>
      [] sig = "ssh" -> <<"s", "s", "h">>
      [] sig = "ftp" -> <<"f", "t", "p">>
      [] sig = "smtp" -> <<"s", "m", "t", "p">>

\* c is the letter d in either case
SameLetter(c, d) ==
    \/ c = d
    \/ \E i \in 1..Len(UpperChars) : UpperChars[i] = c /\ LowerChars[i] = d

\* the signatures that occur in the banner, whatever the case of its letters
NamedByBanner(b) ==
    {sig \in Signatures :
        LET w == SignatureChars(sig) IN
        \E i \in 1..(Len(b) - Len(w) + 1) :
            \A j \in 1..Len(w) : SameLetter(b[i + j - 1], w[j])}

\* C5: with an empty banner _identify_service returns the static table's
\* label of the port ("unknown" off the table); with a banner that contains a
\* protocol signature in any case it returns a service the banner names,
\* whatever the port
C5_IdentifyService ==
    op = "_identify_service" =>
        /\ arg.banner = <<>> =>
              ret.value = (IF arg.port \in DOMAIN common_services
                           THEN common_services[arg.port] ELSE "unknown")
        /\ (arg.banner = <<>> /\ arg.port = 80) => ret.value = "http"
        /\ (arg.banner = <<>> /\ arg.port = 9999) => ret.value = "unknown"
        /\ (arg.banner # <<>> /\ NamedByBanner(arg.banner) # {})
              => ret.value \in NamedByBanner(arg.banner)

\* the banner "SSH" on port 80, whose table label is http, was identified as ssh
C5_Witness ==
    /\ op = "_identify_service"
    /\ arg.port = 80
    /\ arg.banner = <<"S", "S", "H">>
    /\ ret.value = "ssh"

----------------------------------------------------------------------------
(* Port scan *)

IsSortedByPort(l) == \A i \in 1..(Len(l) - 1) : l[i].port <= l[i + 1].port

\* C1: under every completion order of the probes, each per-host list of a
\* port_scan with scan_type tcp_connect is sorted ascending by port, and the
\* list stored for the target just scanned holds every collected result
C1_ConnectScanSorted ==
    (op = "port_scan" /\ arg.scan_type = "tcp_connect") =>
        /\ \A k \in 1..Len(scan_results) : IsSortedByPort(scan_results[k][2])
        /\ (pc \in {"loop", "done"} /\ ti > 0 /\ ret.kind # "raise") =>
              \E k \in 1..Len(scan_results) :
                  /\ scan_results[k][1] = arg.targets[ti]
                  /\ Len(scan_results[k][2]) = Len(results)
                  /\ \A j \in 1..Len(results) :
                        \E m \in 1..Len(results) : scan_results[k][2][m] = results[j]
        /\ ret.kind = "return" => ret.value = scan_results

\* the probes completed with the higher port first and the returned list is
\* ascending
C1_Witness ==
    /\ op = "port_scan" /\ arg.scan_type = "tcp_connect"
    /\ ret.kind = "return"
    /\ Len(results) = 2
    /\ results[1].port > results[2].port
    /\ Len(ret.value) = 1
    /\ ret.value[1][2] = <<results[2], results[1]>>

\* C2: during a port scan by a scanner constructed with max_threads K the
\* number of port probes active at the same time never exceeds K
C2_ActiveProbesWithinK ==
    op = "port_scan" => Cardinality(Running) <= max_threads

\* C4: a port scan whose port-spec has a malformed token starts no probe,
\* returns no result list and ends with an input error
C4_MalformedSpecFailsCall ==
    (op = "port_scan" /\ ~WellFormedSpec(arg.ports)) =>
        /\ futures = <<>>
        /\ sockets = 0
        /\ pc = "done" => ret.kind = "raise"

HasEntry(d, key) == \E k \in 1..Len(d) : d[k][1] = key

EntryOf(d, key) == d[CHOOSE k \in 1..Len(d) : d[k][1] = key][2]

\* the futures of the target just scanned whose connection succeeded
OpenProbes == {i \in 1..Len(futures) : futures[i].outcome = "open"}

\* the connect scan of target ti has stored its list
TargetStored ==
    /\ op = "port_scan" /\ ~UsesNmap
    /\ pc \in {"loop", "done"} /\ ti > 0 /\ ret.kind # "raise"

\* C11: a tcp_syn or udp port_scan on a scanner without the external
\* capability runs the connect scan on every target (the spec is parsed, one
\* probe per port is submitted, the collected results are stored), logs no
\* failure of the capability, fails only on a malformed port-spec and returns
\* an entry for every target
C11_FallsBackToConnectScan ==
    (op = "port_scan" /\ ~nm /\ arg.scan_type \in {"tcp_syn", "udp"}) =>
        /\ log = <<>>
        /\ (ti > 0 /\ ret.kind # "raise") =>
              /\ port_list = NamedPorts(arg.ports)
              /\ Len(futures) = Len(port_list)
        /\ (pc \in {"loop", "done"} /\ ti > 0 /\ ret.kind # "raise") =>
              /\ HasEntry(scan_results, arg.targets[ti])
              /\ Len(EntryOf(scan_results, arg.targets[ti])) = Len(results)
              /\ \A j \in 1..Len(results) :
                    \E m \in 1..Len(results) :
                        EntryOf(scan_results, arg.targets[ti])[m] = results[j]
        /\ ret.kind = "raise" => ~WellFormedSpec(arg.ports)
        /\ ret.kind = "return" =>
              \A i \in 1..Len(arg.targets) : HasEntry(ret.value, arg.targets[i])

\* a udp scan of two targets without the capability returned an open port
\* for each of them
C11_Witness ==
    /\ op = "port_scan" /\ ~nm /\ arg.scan_type = "udp"
    /\ ret.kind = "return"
    /\ arg.targets = <<"h1", "h2">>
    /\ Len(ret.value) = 2
    /\ Len(ret.value[1][2]) > 0
    /\ Len(ret.value[2][2]) > 0
    /\ ret.value[2][2][1].host = "h2"

\* C12: when the connect scan of a target has stored its list, every probe
\* was collected, every port whose connection succeeded is in the list
\* whatever the outcomes of the other probes, and a probe that timed out,
\* like one that was refused or raised, has left no result
C12_ProbeFailuresIsolated ==
    TargetStored =>
        /\ \A i \in 1..Len(futures) : futures[i].state = "collected"
        /\ \A i \in OpenProbes :
              \E m \in 1..Len(EntryOf(scan_results, arg.targets[ti])) :
                  /\ EntryOf(scan_results, arg.targets[ti])[m] = futures[i].result[1]
                  /\ EntryOf(scan_results, arg.targets[ti])[m].port = port_list[i]
        /\ \A i \in 1..Len(futures) :
              futures[i].outcome \in {"refused", "timeout", "error"}
                  => futures[i].result = None
        /\ Len(results) = Cardinality(OpenProbes)

\* of two probes one raised and the other connected, and the returned list
\* holds the port of the one that connected
C12_Witness ==
    /\ TargetStored /\ ret.kind = "return"
    /\ Len(futures) = 2
    /\ futures[1].outcome = "error"
    /\ futures[2].outcome = "open"
    /\ Len(ret.value) = 1
    /\ Len(ret.value[1][2]) = 1
    /\ ret.value[1][2][1].port = port_list[2]

\* C13: a port_scan with a well-formed port-spec never raises; every target
\* scanned so far has an entry, and the mapping it returns has exactly one
\* entry for every supplied target and none for another host
C13_EveryTargetHasEntry ==
    (op = "port_scan" /\ WellFormedSpec(arg.ports)) =>
        /\ ret.kind # "raise"
        /\ pc = "loop" => \A i \in 1..ti : HasEntry(scan_results, arg.targets[i])
        /\ pc = "done" =>
              /\ ret.kind = "return"
              /\ \A i \in 1..Len(arg.targets) :
                    Cardinality({k \in 1..Len(ret.value) :
                                    ret.value[k][1] = arg.targets[i]}) = 1
              /\ \A k \in 1..Len(ret.value) :
                    \E i \in 1..Len(arg.targets) : ret.value[k][1] = arg.targets[i]

\* the external scan of the first target failed and was logged, its entry is
\* the empty list, and the second target was scanned and has an open port
C13_Witness ==
    /\ op = "port_scan" /\ pc = "done" /\ ret.kind = "return"
    /\ arg.targets = <<"h1", "h2">>
    /\ log = <<"Nmap scan failed">>
    /\ Len(ret.value) = 2
    /\ ret.value[1] = <<"h1", <<>> >>
    /\ ret.value[2][1] = "h2"
    /\ Len(ret.value[2][2]) > 0

\* C14: every ScanResult of a port scan has state "open" and the host it is
\* listed under; in a connect scan its port is a port of the parsed list
\* whose connection succeeded, and the probes that were refused, timed out
\* or raised have no entry
C14_OnlyOpenPortsReported ==
    op = "port_scan" =>
        /\ \A k \in 1..Len(scan_results) : \A m \in 1..Len(scan_results[k][2]) :
              /\ scan_results[k][2][m].state = "open"
              /\ scan_results[k][2][m].host = scan_results[k][1]
        /\ \A m \in 1..Len(results) : results[m].state = "open"
        /\ TargetStored =>
              /\ \A m \in 1..Len(EntryOf(scan_results, arg.targets[ti])) :
                    \E i \in OpenProbes :
                        /\ EntryOf(scan_results, arg.targets[ti])[m].port = port_list[i]
                        /\ port_list[i] \in {NamedPorts(arg.ports)[n] :
                                                n \in 1..Len(NamedPorts(arg.ports))}
              /\ Len(EntryOf(scan_results, arg.targets[ti])) <= Cardinality(OpenProbes)

\* port 1 was refused and port 3 was open: the returned list has the one
\* entry of port 3, in state open
C14_Witness ==
    /\ TargetStored /\ ret.kind = "return"
    /\ port_list = <<1, 3>>
    /\ futures[1].outcome = "refused"
    /\ futures[2].outcome = "open"
    /\ Len(ret.value) = 1
    /\ Len(ret.value[1][2]) = 1
    /\ ret.value[1][2][1].port = 3
    /\ ret.value[1][2][1].state = "open"

----------------------------------------------------------------------------
(* Host discovery *)

\* C10: discover_hosts called with a malformed network range raises an input
\* error to the caller and starts no host probe
C10_MalformedRangeRaises ==
    (op = "discover_hosts" /\ ~ValidNetwork(arg.network)) =>
        /\ futures = <<>>
        /\ pc = "done" => ret.kind = "raise"

\* the candidates whose probe succeeded, in the order of the range
LiveCandidates ==
    LET live == SelectSeq([i \in 1..Len(futures) |-> i],
                          LAMBDA i : futures[i].outcome = "live")
    IN  [m \in 1..Len(live) |-> NetworkHosts(arg.network)[live[m]]]

\* C18: the list discover_hosts returns is determined by the range and the
\* outcomes of the probes, whatever the order in which the probes complete.
\* When the probes complete in submission order the list is in the order of
\* the range, so it is that list under every completion order
C18_DiscoveryOrderIndependent ==
    (op = "discover_hosts" /\ pc = "done" /\ Len(futures) > 0) =>
        ret.value = LiveCandidates

\* C19: on a well-formed range discover_hosts raises nothing; every address
\* collected or returned is a candidate of the range whose probe succeeded,
\* none is there twice, and a probe that exited non-zero, timed out or raised
\* has left no result
C19_ProbeFailureMeansNotLive ==
    (op = "discover_hosts" /\ ValidNetwork(arg.network)) =>
        /\ ret.kind # "raise"
        /\ \A m \in 1..Len(results) :
              \E i \in 1..Len(futures) :
                  /\ futures[i].outcome = "live"
                  /\ results[m] = NetworkHosts(arg.network)[i]
        /\ \A m, n \in 1..Len(results) : results[m] = results[n] => m = n
        /\ \A i \in 1..Len(futures) :
              futures[i].outcome \in {"nonzero", "timeout", "exception"}
                  => futures[i].result = None
        /\ pc = "done" =>
              /\ ret.kind = "return"
              /\ ret.value = results
              /\ Len(ret.value) =
                    Cardinality({i \in 1..Len(futures) : futures[i].outcome = "live"})

\* the probe of 10.0.0.1 raised and the probe of 10.0.0.2 succeeded:
\* discover_hosts returned 10.0.0.2 alone
C19_Witness ==
    /\ op = "discover_hosts" /\ pc = "done"
    /\ arg.network = "10.0.0.0/30"
    /\ Len(futures) = 2
    /\ futures[1].outcome = "exception"
    /\ futures[2].outcome = "live"
    /\ ret = [kind |-> "return", value |-> <<"10.0.0.2">>]

----------------------------------------------------------------------------
(* Assessment *)

IdsOf(fs) == {fs[i].id : i \in 1..Len(fs)}

Done(t) == calls[t].pc = "done"

\* the (host, ScanResult) pairs of an input
Pairs(S) ==
    UNION {{<<S[i][1], S[i][2][j]>> : j \in 1..Len(S[i][2])} : i \in 1..Len(S)}

\* the vulnerabilities of a report that a check kind raised for a host and port
RaisedFor(report, kind, host, port) ==
    {i \in 1..Len(report.vulnerabilities) :
        /\ report.vulnerabilities[i].id[1] = kind
        /\ report.vulnerabilities[i].host = host
        /\ report.vulnerabilities[i].port = port}

\* C15: for every open port of the input that the database-port table
\* lists, the report has exactly one vulnerability of the exposed-database
\* check for that host and port; it has severity high and the product's
\* lowercase name as affected_service (mysql for 3306, postgresql for 5432),
\* whatever the service label and banner of the ScanResult
C15_DatabasePortExposed ==
    Done(1) =>
        \A p \in Pairs(calls[1].input) :
            p[2].port \in {3306, 5432, 1433, 27017, 6379} =>
                LET found == RaisedFor(calls[1].report, "DB_EXPOSURE", p[1], p[2].port) IN
                /\ Cardinality(found) = 1
                /\ \A i \in found :
                      /\ calls[1].report.vulnerabilities[i].severity = "high"
                      /\ p[2].port = 3306 =>
                            calls[1].report.vulnerabilities[i].affected_service = "mysql"
                      /\ p[2].port = 5432 =>
                            calls[1].report.vulnerabilities[i].affected_service = "postgresql"

\* port 3306 was open with an HTTP banner and the label http, port 5432 with
\* the label ssh: the report has the mysql and the postgresql vulnerability
C15_Witness ==
    /\ Done(1)
    /\ \E p \in Pairs(calls[1].input) :
          p[2].port = 3306 /\ p[2].service = "http" /\ p[2].banner # <<>>
    /\ \E p \in Pairs(calls[1].input) : p[2].port = 5432 /\ p[2].service = "ssh"
    /\ \E i, j \in 1..Len(calls[1].report.vulnerabilities) :
          /\ calls[1].report.vulnerabilities[i].affected_service = "mysql"
          /\ calls[1].report.vulnerabilities[i].severity = "high"
          /\ calls[1].report.vulnerabilities[j].affected_service = "postgresql"

\* C16: for every ScanResult of the input whose service is a clear-text
\* protocol the report has a vulnerability of the weak-protocol check for
\* that host and port whose title names the protocol, whose affected_service
\* is the protocol and whose severity is the protocol's fixed severity
\* (telnet high, ftp medium)
C16_WeakProtocolFlagged ==
    Done(1) =>
        \A p \in Pairs(calls[1].input) :
            p[2].service \in {"telnet", "ftp"} =>
                \E i \in RaisedFor(calls[1].report, "WEAK_PROTO", p[1], p[2].port) :
                    /\ calls[1].report.vulnerabilities[i].title[2] = p[2].service
                    /\ calls[1].report.vulnerabilities[i].affected_service = p[2].service
                    /\ calls[1].report.vulnerabilities[i].severity =
                          (IF p[2].service = "telnet" THEN "high" ELSE "medium")

\* telnet was found on port 2323 and ftp on port 21: the report has a high
\* telnet vulnerability on 2323 and a medium ftp vulnerability on 21
C16_Witness ==
    /\ Done(1)
    /\ \E p \in Pairs(calls[1].input) : p[2].port = 2323 /\ p[2].service = "telnet"
    /\ \E i, j \in 1..Len(calls[1].report.vulnerabilities) :
          /\ calls[1].report.vulnerabilities[i].port = 2323
          /\ calls[1].report.vulnerabilities[i].affected_service = "telnet"
          /\ calls[1].report.vulnerabilities[i].severity = "high"
          /\ calls[1].report.vulnerabilities[j].port = 21
          /\ calls[1].report.vulnerabilities[j].affected_service = "ftp"
          /\ calls[1].report.vulnerabilities[j].severity = "medium"

\* C17: every report has the four keys and the base recommendations; the
\* report on an input without any ScanResult (no host, or hosts with empty
\* lists) has no vulnerability, no issue, zero totals, a histogram of zeros
\* and no affected host
C17_EmptyInputWellFormedReport ==
    Done(1) =>
        /\ DOMAIN calls[1].report =
              {"vulnerabilities", "security_issues", "summary", "recommendations"}
        /\ \A k \in 1..Len(BaseRecommendations) :
              \E m \in 1..Len(calls[1].report.recommendations) :
                  calls[1].report.recommendations[m] = BaseRecommendations[k]
        /\ Pairs(calls[1].input) = {} =>
              /\ calls[1].report.vulnerabilities = <<>>
              /\ calls[1].report.security_issues = <<>>
              /\ calls[1].report.summary.total_vulnerabilities = 0
              /\ calls[1].report.summary.total_security_issues = 0
              /\ \A s \in Severities :
                    calls[1].report.summary.severity_distribution[s] = 0
              /\ calls[1].report.summary.affected_hosts = {}

\* assess() returned its report on two hosts with empty result lists
C17_Witness ==
    /\ Done(1)
    /\ calls[1].input = << <<"h1", <<>> >>, <<"h2", <<>> >> >>
    /\ calls[1].report.summary.total_vulnerabilities = 0
    /\ calls[1].report.recommendations = BaseRecommendations

\* the findings of a report, vulnerabilities and issues together
ReportFindings(report) ==
    {report.vulnerabilities[i] : i \in 1..Len(report.vulnerabilities)}
    \cup {report.security_issues[i] : i \in 1..Len(report.security_issues)}

Checks == {"weak_protocol", "database", "dangerous_port", "default_port"}

\* what the four checks give on one pair, each check alone
AloneOn(p) == UNION {{CheckResult(c, p[1], p[2])[k] :
                         k \in 1..Len(CheckResult(c, p[1], p[2]))} : c \in Checks}

\* the number of findings the four checks give over a set of pairs
RECURSIVE CountAlone(_)
CountAlone(ps) ==
    IF ps = {} THEN 0
    ELSE LET p == CHOOSE q \in ps : TRUE IN
         Len(CheckResult("weak_protocol", p[1], p[2]))
         + Len(CheckResult("database", p[1], p[2]))
         + Len(CheckResult("dangerous_port", p[1], p[2]))
         + Len(CheckResult("default_port", p[1], p[2]))
         + CountAlone(ps \ {p})

\* C20: the findings of a report are the union, over the (host, ScanResult)
\* pairs of the input, of what each of the four checks gives on the pair
\* alone, no finding lost and none added; telnet on port 23 has a finding of
\* the weak-protocol, the dangerous-port and the default-port check, and a
\* pair no check matches has none
C20_ChecksIndependent ==
    Done(1) =>
        /\ ReportFindings(calls[1].report) = UNION {AloneOn(p) : p \in Pairs(calls[1].input)}
        /\ Len(calls[1].report.vulnerabilities) + Len(calls[1].report.security_issues)
              = CountAlone(Pairs(calls[1].input))
        /\ \A p \in Pairs(calls[1].input) :
              (p[2].port = 23 /\ p[2].service = "telnet") =>
                  \A kind \in {"WEAK_PROTO", "DANGEROUS_PORT", "DEFAULT_PORT"} :
                      \E f \in ReportFindings(calls[1].report) :
                          f.id = <<kind, "telnet", p[1], 23>>
        /\ \A p \in Pairs(calls[1].input) :
              (p[2].port = 8080 /\ p[2].service = "http") =>
                  \A f \in ReportFindings(calls[1].report) : f.id[4] # 8080

\* telnet on port 23 and http on port 8080 were assessed: the report has one
\* vulnerability and two issues, all three for port 23
C20_Witness ==
    /\ Done(1)
    /\ Len(calls[1].input) = 1
    /\ Len(calls[1].input[1][2]) = 2
    /\ calls[1].input[1][2][1].port = 23
    /\ calls[1].input[1][2][1].service = "telnet"
    /\ calls[1].input[1][2][2].port = 8080
    /\ Len(calls[1].report.vulnerabilities) = 1
    /\ Len(calls[1].report.security_issues) = 2

\* C6: two assess() calls on the same engine with identical scan results
\* give the same vulnerability ids, the same issue ids and the same summary
\* counts
C6_AssessTwiceSame ==
    (Done(1) /\ Done(2) /\ calls[1].input = calls[2].input) =>
        /\ IdsOf(calls[1].report.vulnerabilities) = IdsOf(calls[2].report.vulnerabilities)
        /\ IdsOf(calls[1].report.security_issues) = IdsOf(calls[2].report.security_issues)
        /\ calls[1].report.summary = calls[2].report.summary
        /\ Len(calls[1].report.vulnerabilities) = Len(calls[2].report.vulnerabilities)
        /\ Len(calls[1].report.security_issues) = Len(calls[2].report.security_issues)

\* both calls assessed the same two open ports and reported findings
C6_Witness ==
    /\ Done(1) /\ Done(2)
    /\ calls[1].input = calls[2].input
    /\ Len(calls[1].input) = 1
    /\ Len(calls[1].input[1][2]) = 2
    /\ Len(calls[2].report.vulnerabilities) = 2
    /\ Len(calls[1].report.vulnerabilities) = 2

\* the findings the checks give on an input, host by host
RECURSIVE OwnVulnerabilities(_)
OwnVulnerabilities(S) ==
    IF Len(S) = 0 THEN <<>>
    ELSE FindingsOf("weak_protocol", Head(S)[1], Head(S)[2])
         \o FindingsOf("database", Head(S)[1], Head(S)[2])
         \o OwnVulnerabilities(Tail(S))

RECURSIVE OwnIssues(_)
OwnIssues(S) ==
    IF Len(S) = 0 THEN <<>>
    ELSE FindingsOf("dangerous_port", Head(S)[1], Head(S)[2])
         \o FindingsOf("default_port", Head(S)[1], Head(S)[2])
         \o OwnIssues(Tail(S))

\* C7: when assess() invocations on the same engine interleave, each returned
\* report holds exactly the findings of its own input
C7_ReportHoldsOwnFindings ==
    \A t \in Callers :
        Done(t) =>
            /\ calls[t].report.vulnerabilities = OwnVulnerabilities(calls[t].input)
            /\ calls[t].report.security_issues = OwnIssues(calls[t].input)

SumOver(f) ==
    f["critical"] + f["high"] + f["medium"] + f["low"] + f["info"]

\* C8: in every report the severity histogram has exactly the five keys
\* critical, high, medium, low, info and its values sum to the number of
\* vulnerabilities of the report
C8_HistogramSumsToVulnerabilities ==
    \A t \in Callers :
        Done(t) =>
            /\ DOMAIN calls[t].report.summary.severity_distribution =
                  {"critical", "high", "medium", "low", "info"}
            /\ SumOver(calls[t].report.summary.severity_distribution)
                  = Len(calls[t].report.vulnerabilities)

\* a report with a medium and a high vulnerability and the other levels at zero
C8_Witness ==
    \E t \in Callers :
        /\ Done(t)
        /\ Len(calls[t].report.vulnerabilities) = 2
        /\ calls[t].report.summary.severity_distribution["high"] = 1
        /\ calls[t].report.summary.severity_distribution["medium"] = 1
        /\ calls[t].report.summary.severity_distribution["critical"] = 0

InputResults(S) == UNION {{S[i][2][j] : j \in 1..Len(S[i][2])} : i \in 1..Len(S)}

\* C9: every finding of a report has the host (a vulnerability also the port)
\* of a ScanResult of the input of the call that returned it
C9_FindingsFromInput ==
    \A t \in Callers :
        Done(t) =>
            /\ \A i \in 1..Len(calls[t].report.vulnerabilities) :
                  \E r \in InputResults(calls[t].input) :
                      /\ r.host = calls[t].report.vulnerabilities[i].host
                      /\ r.port = calls[t].report.vulnerabilities[i].port
            /\ \A i \in 1..Len(calls[t].report.security_issues) :
                  \E r \in InputResults(calls[t].input) :
                      r.host = calls[t].report.security_issues[i].host

\* a call on h2 returned findings after an earlier call and its custom
\* assessment had left findings on h1 in the engine
C9_Witness ==
    /\ Done(1) /\ Done(2)
    /\ Len(calls[1].input) = 1 /\ calls[1].input[1][1] = "h1"
    /\ Len(calls[1].report.vulnerabilities) > 0
    /\ Len(calls[2].input) = 1 /\ calls[2].input[1][1] = "h2"
    /\ Len(calls[2].report.vulnerabilities) > 0
    /\ vulnerabilities = calls[2].report.vulnerabilities

----------------------------------------------------------------------------
(* Sockets, the deeper probes, the sweeps, the delegated scan, termination *)

\* C21: every socket a probe opened is closed by the time the probe returns,
\* also when connect, send or receive raises: a finished port probe or
\* discovery probe has left no socket without close(), and the deeper probe
\* of every entry service_detection has appended has closed its socket
C21_SocketsClosedAtProbeReturn ==
    /\ \A i \in 1..Len(futures) :
          futures[i].state \in {"done", "collected"} => futures[i].unclosed = 0
    /\ \A k \in 1..Len(probes) : probes[k].closed

\* C22: a ScanResult is immutable after the scan created it:
\* service_detection and its per-service probes leave every field of the
\* objects they are given as it was when the call was made
C22_GivenObjectsUnchanged ==
    op = "service_detection" => objects = arg.scan_results

\* the peer's data carries what the probe of this service looks for: a line
\* that starts with the Server header (in any case), an SSH- greeting, a 220
HasExpected(service, data) ==
    CASE service \in {"http", "https"} ->
            \/ StartsWith(StrLower(data), ServerHeader)
            \/ Contains(StrLower(data), <<"\n">> \o ServerHeader)
      [] service = "ssh" -> Len(data) >= 4 /\ SubSeq(data, 1, 4) = <<"S", "S", "H", "-">>
      [] service = "ftp" -> Contains(data, <<"2", "2", "0">>)
      [] OTHER -> FALSE

\* the deeper probe of the k-th entry failed at some step
ProbeFailed(k) ==
    \/ probes[k].step \in {"connect_failed", "send_failed", "recv_failed"}
    \/ ~HasExpected(arg.scan_results[k].service, probes[k].data)

\* C23: when the deeper probe of an entry fails at any step (connect, send,
\* receive, a response without the expected header or greeting), the result
\* for that entry has the service and version it had before, and
\* service_detection returns one entry per input entry, in input order
C23_FailedProbeKeepsEntry ==
    op = "service_detection" =>
        /\ Len(results) = Len(probes)
        /\ \A k \in 1..Len(results) :
              /\ objects[results[k]].host = arg.scan_results[k].host
              /\ objects[results[k]].port = arg.scan_results[k].port
              /\ ProbeFailed(k) =>
                    /\ objects[results[k]].service = arg.scan_results[k].service
                    /\ objects[results[k]].version = arg.scan_results[k].version
        /\ pc = "done" =>
              /\ ret.kind = "return"
              /\ ret.value = results
              /\ Len(ret.value) = Len(arg.scan_results)
              /\ \A k \in 1..Len(ret.value) : ret.value[k] = k

\* two web entries that carried a version: the probe of the first gets no
\* Server header, the probe of the second gets one, and the call has returned
C23_Witness ==
    /\ op = "service_detection" /\ pc = "done"
    /\ Len(probes) = 2
    /\ arg.scan_results[1].service = "http" /\ arg.scan_results[1].version = <<"9">>
    /\ arg.scan_results[2].service = "http" /\ arg.scan_results[2].version = <<"9">>
    /\ probes[1].step = "answered" /\ probes[1].data = <<"H", "T", "T", "P">>
    /\ objects[ret.value[1]].version = <<"9">>
    /\ probes[2].step = "answered"
    /\ objects[ret.value[2]].version = <<"n", "x">>

\* C24: each per-host list of a port scan holds at most one ScanResult per
\* port, also when the port-spec names a port more than once
C24_OneResultPerPort ==
    op = "port_scan" =>
        \A e \in 1..Len(scan_results) :
            \A m, n \in 1..Len(scan_results[e][2]) :
                scan_results[e][2][m].port = scan_results[e][2][n].port => m = n

\* the common ports whose trial connection succeeds
Connecting(trials) == {k \in 1..Len(trials) : trials[k] = "connected"}

\* C25: in the common-ports sweep a candidate is reported live if and only if
\* a trial connection to at least one of the common ports succeeds, and an
\* exception on one port does not stop the remaining ports from being tried:
\* the ports are tried up to the first that connects, or all ten
C25_LiveIffSomeTrialConnects ==
    op = "check_host" =>
        /\ Len(arg.trials) = 10
        /\ ret.value.result = <<arg.host>> <=> Connecting(arg.trials) # {}
        /\ ret.value.result = None <=> Connecting(arg.trials) = {}
        /\ Connecting(arg.trials) = {} => ret.value.tried = 10
        /\ \A k \in Connecting(arg.trials) : ret.value.tried <= k
        /\ ret.value.tried \in Connecting(arg.trials) \cup {10}

\* the first trial raises, the second is refused, the third connects
C25_Witness ==
    /\ op = "check_host"
    /\ arg.trials[1] = "exception" /\ arg.trials[2] = "refused"
    /\ arg.trials[3] = "connected"
    /\ ret.value.result = <<arg.host>>
    /\ ret.value.tried = 3

\* C26: during host discovery by a scanner with maximum concurrency K the
\* candidate probes of the sweep, one per candidate address, run through the
\* sweep's worker pool, and the probes active at the same time never exceed K
C26_DiscoveryProbesWithinK ==
    op = "discover_hosts" =>
        /\ Cardinality(Running) <= max_threads
        /\ pc = "collect" => Len(futures) = Len(NetworkHosts(arg.network))

\* K = 1 and two candidates: one probe is running and the other has to wait
C26_Witness ==
    /\ op = "discover_hosts" /\ pc = "collect"
    /\ max_threads = 1
    /\ Len(futures) = 2
    /\ Cardinality(Running) = 1
    /\ Cardinality(Pending) = 1

\* the service the table of well-known ports gives a port
PortDefault(port) ==
    IF port \in DOMAIN common_services THEN common_services[port] ELSE "unknown"

\* C27: in a connect probe whose connection succeeds the banner attempt is
\* best-effort: when the send or the receive fails or times out the port is
\* still reported open, with an empty banner and the default service of the
\* port, and nothing is raised
C27_BannerAttemptBestEffort ==
    op = "port_scan" =>
        \A i \in 1..Len(futures) :
            futures[i].attempt \in {"send_failed", "recv_failed"} =>
                /\ futures[i].outcome = "open"
                /\ futures[i].result # None
                /\ futures[i].result[1].port = port_list[i]
                /\ futures[i].result[1].host = arg.targets[ti]
                /\ futures[i].result[1].state = "open"
                /\ futures[i].result[1].banner = <<>>
                /\ futures[i].result[1].service = PortDefault(port_list[i])
                /\ ret.kind # "raise"
                /\ futures[i].state = "collected" =>
                      \E m \in 1..Len(results) : results[m] = futures[i].result[1]

\* port 22 connects and the receive fails: the scan has returned the port as
\* open, service ssh, empty banner
C27_Witness ==
    /\ op = "port_scan" /\ pc = "done" /\ ret.kind = "return"
    /\ Len(futures) = 1
    /\ port_list = <<22>>
    /\ futures[1].attempt = "recv_failed"
    /\ Len(ret.value) = 1
    /\ Len(ret.value[1][2]) = 1
    /\ ret.value[1][2][1].service = "ssh"
    /\ ret.value[1][2][1].banner = <<>>

\* C28: when a SYN or UDP scan is delegated to the external scanner, the
\* per-host lists of port_scan are sorted ascending by port, whatever the
\* order in which the external scanner reports its ports
C28_DelegatedScanSorted ==
    (op = "port_scan" /\ nm /\ arg.scan_type \in {"tcp_syn", "udp"}) =>
        \A k \in 1..Len(scan_results) : IsSortedByPort(scan_results[k][2])

\* C29: for a well-formed range discover_hosts probes every candidate address
\* of the range under every method and platform: when the call has returned,
\* one probe per candidate was submitted and has completed, and no failure of
\* the discovery was logged
C29_EveryMethodProbesRange ==
    (op = "discover_hosts" /\ ValidNetwork(arg.network) /\ pc = "done") =>
        /\ Len(futures) = Len(NetworkHosts(arg.network))
        /\ \A i \in 1..Len(futures) : futures[i].state = "collected"
        /\ log = <<>>

\* port_scan has returned its mapping
Returned == op = "port_scan" /\ pc = "done" /\ ret.kind = "return"

\* C30: if every probe terminates, port_scan on a finite target list and a
\* well-formed port-spec eventually returns; at the moment it returns every
\* submitted probe has completed and been collected, and after the return
\* no future, no result list and no returned value changes any more
C30_PortScanReturnsWithProbesDone ==
    /\ (op = "port_scan" /\ WellFormedSpec(arg.ports)) ~> Returned
    /\ [](Returned =>
            /\ \A i \in 1..Len(futures) : futures[i].state = "collected"
            /\ doneq = <<>>
            /\ ti = Len(arg.targets))
    /\ [][Returned => UNCHANGED <<futures, doneq, results, scan_results, ret>>]_vars

\* a scan of two targets with two probes each has returned
C30_Witness ==
    /\ Returned
    /\ Len(arg.targets) = 2
    /\ ~UsesNmap
    /\ Len(futures) = 2
    /\ \A i \in 1..Len(futures) : futures[i].state = "collected"
    /\ Len(ret.value) = 2

====
